---- MODULE Spec2Model ----
(***************************************************************************)
(* Model of the AIController class of src/public/js/ai.js: the per-frame   *)
(* decision engine of the computer-controlled fighter.                     *)
(*                                                                         *)
(* Numbers.  JavaScript numbers are reals here wherever the code makes     *)
(* them so:                                                                *)
(*   - Math.random() returns u/Res for an integer u in 0..Res-1;           *)
(*   - attackCooldown and jumpCooldown are held in units of 1/Res frame,   *)
(*     so that attackCooldownMin + Math.random() * cooldownRange is exact  *)
(*     (Res*min + u*range) and "--" subtracts Res;                         *)
(*   - probabilities of the parameter table are held in hundredths;        *)
(*   - getDistance is held in half position units (width / 2 is exact).    *)
(* The fields this.state and this.actionDuration are written once by the   *)
(* constructor and never read or written again: they are left out.         *)
(*                                                                         *)
(* Specifications.  Both cooldowns count single frames from 120 to 240     *)
(* down, so an environment that lets attacks and jumps interleave freely   *)
(* at every tier is out of reach of exhaustive search.  Three environments *)
(* of the same update action are explored instead:                         *)
(*   Spec          every tier and setDifficulty, every flag, the opponent  *)
(*                 around the attack range and far away, two decision      *)
(*                 times (jumps come from the mistake rule only);          *)
(*   SpecEasyTier  the easy tier, every flag, the opponent at the          *)
(*                 distances of every rule of the cascade, two decisions;  *)
(*   SpecStrikes   the easy tier, opponent in attack range, no mistake,    *)
(*                 nine decisions.                                         *)
(***************************************************************************)
EXTENDS Integers, FiniteSets, Sequences, TLC

VARIABLES
    difficulty,        \* this.difficulty
    reactionTime,      \* this.reactionTime (ms)
    params,            \* this.params
    lastDecisionTime,  \* this.lastDecisionTime (ms)
    currentAction,     \* this.currentAction (Null or an action object)
    attackCooldown,    \* this.attackCooldown, in 1/Res frames
    jumpCooldown,      \* this.jumpCooldown, in 1/Res frames
    strikeCount,       \* this.strikeCount
    now,               \* the caller's clock: currentTime of the last update call
    flags,             \* the dead and isAttacking flags the last update call was given
    locals,            \* opponent.position.x, const distance and const isOpponentLeft
                       \* of the last update call (Null: the call returned before
                       \* computing them)
    aggressivenessRoll,\* the roll of line 121 in the last update call: "none" (not
                       \* reached), "failed" or "passed"
    callsSinceJump,    \* update calls made since the last jump of the jump rules,
                       \* counted up to 120 (120: that many or more, or no such jump)
    result,            \* what the last update call returned (Null before any call)
    branch             \* the return statement the last update call left by

vars == <<difficulty, reactionTime, params, lastDecisionTime, currentAction,
          attackCooldown, jumpCooldown, strikeCount, now, flags, locals,
          aggressivenessRoll, callsSinceJump, result, branch>>

-----------------------------------------------------------------------------
(* Bounds of the model *)

\* Math.random() draws are multiples of 1/Res
Res == 16
\* the caller's clock stops at MaxTime ms
MaxTime == 1200
\* strikeCount is explored up to MaxStrikes
MaxStrikes == 9
\* the caller's clock stops at MaxTimeEasyTier ms in the two easy-tier environments
MaxTimeEasyTier == 2400
MaxTimeStrikes == 10800

-----------------------------------------------------------------------------
(* Values *)

Null == [null |-> TRUE]

\* getIdleActions(): { idle: true }
getIdleActions == [idle |-> TRUE]

Attack == [attack |-> TRUE]

Jump(dir) == [jump |-> TRUE, moveDirection |-> dir]

Move(dir) == [move |-> dir]

\* 'easy', 'medium', 'hard', and a value the switch statements do not list
Tiers == {"easy", "medium", "hard", "nightmare"}

getReactionTime(d) ==
    CASE d = "easy" -> 1200
      [] d = "medium" -> 400
      [] d = "hard" -> 150
      [] OTHER -> 400

MediumParams ==
    [aggressiveness |-> 28, defensiveness |-> 35, attackRange |-> 195,
     comfortDistance |-> 200, jumpChance |-> 22, mistakes |-> 25,
     attackCooldownMin |-> 180, attackCooldownMax |-> 240]

getDifficultyParams(d) ==
    CASE d = "easy" ->
            [aggressiveness |-> 90, defensiveness |-> 60, attackRange |-> 190,
             comfortDistance |-> 320, jumpChance |-> 12, mistakes |-> 50,
             attackCooldownMin |-> 120, attackCooldownMax |-> 120]
      [] d = "medium" -> MediumParams
      [] d = "hard" ->
            [aggressiveness |-> 38, defensiveness |-> 45, attackRange |-> 220,
             comfortDistance |-> 170, jumpChance |-> 30, mistakes |-> 12,
             attackCooldownMin |-> 90, attackCooldownMax |-> 150]
      [] OTHER -> MediumParams

-----------------------------------------------------------------------------
(* Arithmetic of the code on the scaled numbers *)

\* Math.random() < p, for the draw u/Res and p given in hundredths
RandomBelow(u, p) == u * 100 < p * Res

\* a variant for C2: the decrement without its test, c--
DecrementUnguarded(c) == c - Res

\* if (c > 0) c--
Decrement(c) == IF c > 0 THEN c - Res ELSE c

\* a variant for C10: attackCooldownMin + Math.random() * attackCooldownMax
AttackCooldownUpToMax(p, u) == Res * p.attackCooldownMin + u * p.attackCooldownMax

\* attackCooldownMin + Math.random() * (attackCooldownMax - attackCooldownMin)
AttackCooldownValue(p, u) ==
    LET cooldownRange == p.attackCooldownMax - p.attackCooldownMin
    IN  Res * p.attackCooldownMin + u * cooldownRange

\* a variant for C20: this.jumpCooldown = 60
JumpCooldownShort == 60 * Res

\* this.jumpCooldown = 120
JumpCooldownValue == 120 * Res

\* a variant for C6: strikeCount % 2 === 0
IsSecondStrike(sc) == sc % 2 = 0

\* strikeCount % 3 === 0
IsThirdStrike(sc) == sc % 3 = 0

Abs(n) == IF n < 0 THEN -n ELSE n

\* getDistance, doubled: |(x1 + w1/2) - (x2 + w2/2)| * 2
getDistance(fighter1, fighter2) ==
    LET center1 == 2 * fighter1.position.x + fighter1.width
        center2 == 2 * fighter2.position.x + fighter2.width
    IN  Abs(center1 - center2)

\* a variant for C11: distance <= limit
DistanceAtMost(distance, limit) == distance <= 2 * limit

\* distance < limit, for the doubled distance
DistanceBelow(distance, limit) == distance < 2 * limit

\* distance > limit, for the doubled distance
DistanceAbove(distance, limit) == distance > 2 * limit

\* a variant for C9: actions[Math.round(Math.random() * actions.length)], which is
\* undefined (here Null) past the end of the array
makeRandomActionRounded(u) ==
    LET actions == <<getIdleActions, Move("left"), Move("right"), Attack,
                     Jump("left"), Jump("right")>>
        index == (2 * u * Len(actions) + Res) \div (2 * Res)
    IN  IF index < Len(actions) THEN actions[index + 1] ELSE Null

\* actions[Math.floor(Math.random() * actions.length)]
makeRandomAction(u) ==
    LET actions == <<getIdleActions, Move("left"), Move("right"), Attack,
                     Jump("left"), Jump("right")>>
    IN  actions[((u * Len(actions)) \div Res) + 1]

\* a variant for C3: the test inverted, if (!this.currentAction)
continueCurrentActionInverted ==
    IF currentAction = Null THEN currentAction ELSE getIdleActions

\* if (this.currentAction) return this.currentAction; return this.getIdleActions()
continueCurrentAction == IF currentAction # Null THEN currentAction ELSE getIdleActions

\* a variant for C4: aiPlayer.dead && opponent.dead
BothDead(ai, opp) == ai.dead /\ opp.dead

\* aiPlayer.dead || opponent.dead
EitherDead(ai, opp) == ai.dead \/ opp.dead

\* a variant for C5: the flag read from a field the fighter does not have
\* (undefined, which is falsy)
IsAttackingMisread(ai) == FALSE

\* aiPlayer.isAttacking
IsAttacking(ai) == ai.isAttacking

\* a variant for C13: the comparison turned round,
\* currentTime - this.lastDecisionTime > this.reactionTime
InReactionWindowFlipped(currentTime) == currentTime - lastDecisionTime > reactionTime

\* currentTime - this.lastDecisionTime < this.reactionTime
InReactionWindow(currentTime) == currentTime - lastDecisionTime < reactionTime

-----------------------------------------------------------------------------
(* The environment: what the game loop passes to update *)

\* the draws a run of the model takes from Math.random(): 0, about 1/2, the largest
Draws == {0, Res \div 2, Res - 1}

\* the fighter the engine controls stands at x = 400; both fighters are 50 wide
AiViews ==
    {[position |-> [x |-> 400], width |-> 50, dead |-> d, isAttacking |-> a] :
        d \in BOOLEAN, a \in BOOLEAN}

AiAlive == {v \in AiViews : ~v.dead /\ ~v.isAttacking}

OpponentsAt(xs) ==
    {[position |-> [x |-> x], width |-> 50, dead |-> d] : x \in xs, d \in BOOLEAN}

\* opponents at distance 194, 195 and 196 to the left and 500 to the right
OpponentViews == OpponentsAt({206, 205, 204, 900})

\* by how much the clock advances from one call to the next (ms)
Deltas == {0, 600}

-----------------------------------------------------------------------------
(* The constructor *)

Init ==
    /\ difficulty \in Tiers
    /\ reactionTime = getReactionTime(difficulty)
    /\ lastDecisionTime = 0
    /\ currentAction = Null
    /\ attackCooldown = 0
    /\ jumpCooldown = 0
    /\ strikeCount = 0
    /\ params = getDifficultyParams(difficulty)
    /\ now = 0
    /\ flags = Null
    /\ locals = Null
    /\ aggressivenessRoll = "none"
    /\ callsSinceJump = JumpCooldownValue \div Res
    /\ result = Null
    /\ branch = "constructor"

-----------------------------------------------------------------------------
(* update and makeDecision.  ac and jc are the cooldowns after the decrement *)
(* that opens update; every operator below ends in one return statement.    *)

\* a variant for C15: this.lastDecisionTime = currentTime moved above the
\* early returns of update
ReturnStampsTime(br, action, ac, jc) ==
    /\ branch' = br
    /\ result' = action
    /\ attackCooldown' = ac
    /\ jumpCooldown' = jc
    /\ locals' = Null
    /\ aggressivenessRoll' = "none"
    /\ lastDecisionTime' = now'
    /\ UNCHANGED <<currentAction, strikeCount>>

\* a return statement of update that stores no decision
Return(br, action, ac, jc) ==
    /\ branch' = br
    /\ result' = action
    /\ attackCooldown' = ac
    /\ jumpCooldown' = jc
    /\ locals' = Null
    /\ aggressivenessRoll' = "none"
    /\ UNCHANGED <<lastDecisionTime, currentAction, strikeCount>>

\* a variant for C18: update without this.currentAction = action
DecideWithoutStore(br, action, ac, jc, sc, currentTime) ==
    /\ branch' = br
    /\ result' = action
    /\ lastDecisionTime' = currentTime
    /\ attackCooldown' = ac
    /\ jumpCooldown' = jc
    /\ strikeCount' = sc
    /\ UNCHANGED currentAction

\* a return statement of makeDecision: update stores the action and returns it
Decide(br, action, ac, jc, sc, currentTime) ==
    /\ branch' = br
    /\ result' = action
    /\ currentAction' = action
    /\ lastDecisionTime' = currentTime
    /\ attackCooldown' = ac
    /\ jumpCooldown' = jc
    /\ strikeCount' = sc

\* At good distance - strafe or wait
StrafeOrWait(ac, jc, currentTime, D) ==
    \E s \in D :
        IF RandomBelow(s, 30)
        THEN \E d \in D :
                LET strafeDirection == IF RandomBelow(d, 50) THEN "left" ELSE "right"
                IN  Decide("strafe", Move(strafeDirection), ac, jc, strikeCount, currentTime)
        ELSE Decide("idle", getIdleActions, ac, jc, strikeCount, currentTime)

\* Priority 3: Movement decisions
Movement(ac, jc, distance, isOpponentLeft, currentTime, D) ==
    LET idealDistance == params.comfortDistance
        moveToward == IF isOpponentLeft THEN "left" ELSE "right"
        moveAway == IF isOpponentLeft THEN "right" ELSE "left"
    IN  IF DistanceAbove(distance, idealDistance + 50)
        THEN Decide("approach", Move(moveToward), ac, jc, strikeCount, currentTime)
        ELSE IF DistanceBelow(distance, idealDistance - 50)
             THEN \E r \in D :
                    IF RandomBelow(r, params.defensiveness)
                    THEN Decide("retreat", Move(moveAway), ac, jc, strikeCount, currentTime)
                    ELSE StrafeOrWait(ac, jc, currentTime, D)
             ELSE StrafeOrWait(ac, jc, currentTime, D)

\* Jump to approach (offensive)
OffensiveJump(ac, jc, distance, isOpponentLeft, currentTime, D) ==
    LET jumpDirection == IF isOpponentLeft THEN "left" ELSE "right"
    IN  IF DistanceAbove(distance, 250) /\ DistanceBelow(distance, 400)
        THEN \E r \in D :
                IF RandomBelow(r, params.jumpChance)
                THEN Decide("offensiveJump", Jump(jumpDirection), ac, JumpCooldownValue,
                            strikeCount, currentTime)
                ELSE Movement(ac, jc, distance, isOpponentLeft, currentTime, D)
        ELSE Movement(ac, jc, distance, isOpponentLeft, currentTime, D)

\* a variant for C16: the jump rules without if (this.jumpCooldown === 0)
JumpPriorityIgnoresCooldown(ac, jc, distance, isOpponentLeft, currentTime, D) ==
    LET jumpDirection == IF isOpponentLeft THEN "right" ELSE "left"
    IN  IF DistanceBelow(distance, 100)
        THEN \E r \in D :
               IF RandomBelow(r, params.defensiveness)
               THEN Decide("defensiveJump", Jump(jumpDirection), ac, JumpCooldownValue,
                           strikeCount, currentTime)
               ELSE OffensiveJump(ac, jc, distance, isOpponentLeft, currentTime, D)
        ELSE OffensiveJump(ac, jc, distance, isOpponentLeft, currentTime, D)

\* Priority 2: Jump if opponent is very close or to approach
JumpPriority(ac, jc, distance, isOpponentLeft, currentTime, D) ==
    LET jumpDirection == IF isOpponentLeft THEN "right" ELSE "left"
    IN  IF jc = 0
        THEN IF DistanceBelow(distance, 100)
             THEN \E r \in D :
                    IF RandomBelow(r, params.defensiveness)
                    THEN Decide("defensiveJump", Jump(jumpDirection), ac, JumpCooldownValue,
                                strikeCount, currentTime)
                    ELSE OffensiveJump(ac, jc, distance, isOpponentLeft, currentTime, D)
             ELSE OffensiveJump(ac, jc, distance, isOpponentLeft, currentTime, D)
        ELSE Movement(ac, jc, distance, isOpponentLeft, currentTime, D)

\* the body of if (Math.random() < params.aggressiveness)
Strike(ac, jc, currentTime, D) ==
    LET sc == IF difficulty = "easy" THEN strikeCount + 1 ELSE strikeCount
    IN  /\ sc <= MaxStrikes
        /\ IF difficulty = "easy" /\ IsThirdStrike(sc)
           THEN Decide("miss", getIdleActions, Res * params.attackCooldownMin, jc, sc,
                       currentTime)
           ELSE \E c \in D :
                    Decide("attack", Attack, AttackCooldownValue(params, c), jc, sc,
                           currentTime)

\* a variant for C17: a failed aggressiveness roll starts the attack cooldown all
\* the same (this.attackCooldown = params.attackCooldownMin before the roll)
AttackPriorityConsumesCooldown(ac, jc, distance, isOpponentLeft, currentTime, D) ==
    IF DistanceBelow(distance, params.attackRange) /\ ac = 0
    THEN \E a \in D :
            IF RandomBelow(a, params.aggressiveness)
            THEN /\ aggressivenessRoll' = "passed"
                 /\ Strike(ac, jc, currentTime, D)
            ELSE /\ aggressivenessRoll' = "failed"
                 /\ JumpPriority(Res * params.attackCooldownMin, jc, distance,
                                 isOpponentLeft, currentTime, D)
    ELSE /\ aggressivenessRoll' = "none"
         /\ JumpPriority(ac, jc, distance, isOpponentLeft, currentTime, D)

\* a variant for C14: the attack rule without its cooldown test,
\* if (distance < params.attackRange)
AttackPriorityIgnoresCooldown(ac, jc, distance, isOpponentLeft, currentTime, D) ==
    IF DistanceBelow(distance, params.attackRange)
    THEN \E a \in D :
            IF RandomBelow(a, params.aggressiveness)
            THEN /\ aggressivenessRoll' = "passed"
                 /\ Strike(ac, jc, currentTime, D)
            ELSE /\ aggressivenessRoll' = "failed"
                 /\ JumpPriority(ac, jc, distance, isOpponentLeft, currentTime, D)
    ELSE /\ aggressivenessRoll' = "none"
         /\ JumpPriority(ac, jc, distance, isOpponentLeft, currentTime, D)

\* Priority 1: Attack if in range and cooldown ready
AttackPriority(ac, jc, distance, isOpponentLeft, currentTime, D) ==
    IF DistanceBelow(distance, params.attackRange) /\ ac = 0
    THEN \E a \in D :
            IF RandomBelow(a, params.aggressiveness)
            THEN /\ aggressivenessRoll' = "passed"
                 /\ Strike(ac, jc, currentTime, D)
            ELSE /\ aggressivenessRoll' = "failed"
                 /\ JumpPriority(ac, jc, distance, isOpponentLeft, currentTime, D)
    ELSE /\ aggressivenessRoll' = "none"
         /\ JumpPriority(ac, jc, distance, isOpponentLeft, currentTime, D)

makeDecision(ac, jc, distance, isOpponentLeft, currentTime, D) ==
    \E m \in D :
        IF RandomBelow(m, params.mistakes)
        THEN \E r \in D :
                /\ aggressivenessRoll' = "none"
                /\ Decide("mistake", makeRandomAction(r), ac, jc, strikeCount, currentTime)
        ELSE AttackPriority(ac, jc, distance, isOpponentLeft, currentTime, D)

\* update(aiPlayer, opponent, currentTime), for the inputs of an environment
UpdateIn(Ais, Opponents, Dts, D, maxTime) ==
    \E ai \in Ais, opp \in Opponents, dt \in Dts :
        LET currentTime == now + dt
            ac == Decrement(attackCooldown)
            jc == Decrement(jumpCooldown)
        IN  /\ currentTime <= maxTime
            /\ now' = currentTime
            /\ flags' = [aiPlayerDead |-> ai.dead, opponentDead |-> opp.dead,
                          isAttacking |-> ai.isAttacking]
            /\ UNCHANGED <<difficulty, reactionTime, params>>
            /\ IF EitherDead(ai, opp)
               THEN Return("dead", getIdleActions, ac, jc)
               ELSE IF IsAttacking(ai)
                    THEN Return("attacking", continueCurrentAction, ac, jc)
                    ELSE IF InReactionWindow(currentTime)
                         THEN Return("window", continueCurrentAction, ac, jc)
                         ELSE /\ locals' = [opponentX |-> opp.position.x,
                                           distance |-> getDistance(ai, opp),
                                           isOpponentLeft |->
                                               opp.position.x < ai.position.x]
                              /\ makeDecision(ac, jc, getDistance(ai, opp),
                                              opp.position.x < ai.position.x,
                                              currentTime, D)
            /\ callsSinceJump' =
                    IF branch' \in {"defensiveJump", "offensiveJump"} THEN 0
                    ELSE IF callsSinceJump < JumpCooldownValue \div Res
                         THEN callsSinceJump + 1
                         ELSE callsSinceJump

update == UpdateIn(AiViews, OpponentViews, Deltas, Draws, MaxTime)

\* a variant for C7: setDifficulty without its last line
setDifficultyKeepsParams(d) ==
    /\ difficulty' = d
    /\ reactionTime' = getReactionTime(d)
    /\ UNCHANGED <<params, lastDecisionTime, currentAction, attackCooldown, jumpCooldown,
                   strikeCount, now, flags, locals, aggressivenessRoll, callsSinceJump,
                   result, branch>>

\* a variant for C8: setDifficulty that also resets the counters, as the
\* constructor does
setDifficultyResets(d) ==
    /\ difficulty' = d
    /\ reactionTime' = getReactionTime(d)
    /\ params' = getDifficultyParams(d)
    /\ attackCooldown' = 0
    /\ jumpCooldown' = 0
    /\ strikeCount' = 0
    /\ UNCHANGED <<lastDecisionTime, currentAction, now, flags, locals,
                   aggressivenessRoll, callsSinceJump, result, branch>>

setDifficulty(d) ==
    /\ difficulty' = d
    /\ reactionTime' = getReactionTime(d)
    /\ params' = getDifficultyParams(d)
    /\ UNCHANGED <<lastDecisionTime, currentAction, attackCooldown, jumpCooldown,
                   strikeCount, now, flags, locals, aggressivenessRoll, callsSinceJump,
                   result, branch>>

Next ==
    \/ update
    \/ \E d \in Tiers : setDifficulty(d)

Spec == Init /\ [][Next]_vars

-----------------------------------------------------------------------------
(* The easy tier with every rule of the cascade in reach: the opponent at   *)
(* distance 0 (attack, defensive jump, retreat), 300 on either side         *)
(* (offensive jump) and 500 (approach), and time for two decisions.         *)

InitEasy == Init /\ difficulty = "easy"

updateEasyTier ==
    UpdateIn(AiViews, OpponentsAt({400, 100, 700, 900}), {0, 1200}, Draws,
             MaxTimeEasyTier)

NextEasyTier == updateEasyTier

SpecEasyTier == InitEasy /\ [][NextEasyTier]_vars

-----------------------------------------------------------------------------
(* The easy tier's strike pattern: both fighters alive, the opponent in     *)
(* attack range (distance 150), no draw below the mistake threshold,        *)
(* time for nine decisions.                                                *)

updateStrikes ==
    UpdateIn(AiAlive,
             {v \in OpponentsAt({250}) : ~v.dead}, {0, 1200},
             {u \in Draws : ~RandomBelow(u, getDifficultyParams("easy").mistakes)},
             MaxTimeStrikes)

NextStrikes == updateStrikes

SpecStrikes == InitEasy /\ [][NextStrikes]_vars

-----------------------------------------------------------------------------
(* Properties *)

\* a step of update (setDifficulty, when it changes anything, changes difficulty)
UpdateStep == difficulty' = difficulty

\* the flags of an update call that was given a dead fighter
DeadCall(f) == f # Null /\ (f.aiPlayerDead \/ f.opponentDead)

\* the flags of an update call that was given aiPlayer.isAttacking
AttackingCall(f) == f # Null /\ f.isAttacking

\* C1: in every reachable state attackCooldown >= 0 and jumpCooldown >= 0.
C1_CooldownsNeverNegative == attackCooldown >= 0 /\ jumpCooldown >= 0

\* C2 as claimed: an update call takes exactly 1 off a cooldown counter that is
\* positive before the call, and leaves a counter that is 0 undecremented.
C2_DecrementedByOneAfterCall ==
    [][UpdateStep =>
        /\ (attackCooldown > 0 => attackCooldown' = attackCooldown - Res)
        /\ (jumpCooldown > 0 => jumpCooldown' = jumpCooldown - Res)
        /\ (attackCooldown = 0 => attackCooldown' >= 0)
        /\ (jumpCooldown = 0 => jumpCooldown' >= 0)]_vars

\* C2 as amended: an update call takes exactly 1 off a cooldown counter that is
\* positive before the call and leaves it there, unless the fresh decision of that
\* same call assigns the counter (the attack branch, scripted miss included,
\* assigns attackCooldown; a jump of the jump rules assigns jumpCooldown), which
\* happens only when the decrement took the counter from 1 to 0; a counter that
\* is not positive before the call is not decremented.
C2_DecrementedByOneUnlessReassigned ==
    [][UpdateStep =>
        LET setsAttack == branch' \in {"attack", "miss"}
            setsJump == branch' \in {"defensiveJump", "offensiveJump"}
        IN  /\ (attackCooldown > 0 /\ ~setsAttack => attackCooldown' = attackCooldown - Res)
            /\ (attackCooldown > 0 /\ setsAttack => attackCooldown = Res)
            /\ (attackCooldown <= 0 /\ ~setsAttack => attackCooldown' = attackCooldown)
            /\ (jumpCooldown > 0 /\ ~setsJump => jumpCooldown' = jumpCooldown - Res)
            /\ (jumpCooldown > 0 /\ setsJump => jumpCooldown = Res)
            /\ (jumpCooldown <= 0 /\ ~setsJump => jumpCooldown' = jumpCooldown)
            /\ (setsJump => jumpCooldown' = 120 * Res)
            /\ (setsAttack => attackCooldown' > 0)]_vars

\* both counters part-way down, after a call that only decremented them
C2_Witness ==
    /\ branch = "window"
    /\ attackCooldown > 0 /\ attackCooldown < 120 * Res
    /\ jumpCooldown > 0 /\ jumpCooldown < 120 * Res

\* C3 as claimed: of two consecutive update calls at now1 then now2 with
\* now2 - now1 < reactionTime and neither fighter dead on either call, the second
\* returns what the first returned.
C3_SameActionWithinReactionTimeOfPreviousCall ==
    [][(/\ UpdateStep
        /\ flags # Null
        /\ ~DeadCall(flags) /\ ~DeadCall(flags')
        /\ now' - now < reactionTime)
       => result' = result]_vars

\* C3 as amended: of two consecutive update calls with neither fighter dead on
\* either call, the second returns what the first returned when it is made less
\* than reactionTime after the last fresh decision
\* (now2 - lastDecisionTime < reactionTime), not after the previous call.
C3_SameActionWithinReactionTimeOfLastDecision ==
    [][(/\ UpdateStep
        /\ flags # Null
        /\ ~DeadCall(flags) /\ ~DeadCall(flags')
        /\ now' - lastDecisionTime < reactionTime)
       => result' = result]_vars

\* a call inside the reaction window has repeated a stored Attack
C3_Witness ==
    /\ branch = "window"
    /\ flags # Null /\ ~DeadCall(flags) /\ ~AttackingCall(flags)
    /\ now - lastDecisionTime < reactionTime
    /\ result = Attack

\* C4: an update call given aiPlayer.dead or opponent.dead returns Idle and leaves
\* lastDecisionTime, currentAction and strikeCount as they were, whatever the
\* cooldowns, the timer, currentAction, isAttacking and the clock are.
C4_DeadReturnsIdle ==
    [][(UpdateStep /\ DeadCall(flags'))
       => /\ result' = [idle |-> TRUE]
          /\ UNCHANGED <<lastDecisionTime, currentAction, strikeCount>>]_vars

\* a dead call made when a decision was due, with an Attack stored and the attack
\* cooldown running
C4_Witness ==
    /\ DeadCall(flags)
    /\ now - lastDecisionTime >= reactionTime
    /\ currentAction = Attack
    /\ attackCooldown > 0
    /\ result = [idle |-> TRUE]

\* C5: an update call given both fighters alive and aiPlayer.isAttacking returns the
\* stored currentAction, or Idle when there is none, and leaves lastDecisionTime,
\* currentAction and strikeCount as they were, even when a decision is due.
C5_AttackingLockout ==
    [][(UpdateStep /\ ~DeadCall(flags') /\ AttackingCall(flags'))
       => /\ result' = (IF currentAction = Null THEN [idle |-> TRUE] ELSE currentAction)
          /\ UNCHANGED <<lastDecisionTime, currentAction, strikeCount>>]_vars

\* an attacking call made when a decision was due has returned the stored action
C5_Witness ==
    /\ ~DeadCall(flags) /\ AttackingCall(flags)
    /\ now - lastDecisionTime >= reactionTime
    /\ currentAction # Null
    /\ result = currentAction

\* C6: at the easy tier with the mistake roll failing, the k-th decision that takes
\* the attack branch with a successful aggressiveness roll (strikeCount becomes k)
\* returns Idle and sets attackCooldown to 120 exactly when k is a multiple of 3,
\* and returns Attack for every other k.
C6_EveryThirdStrikeMisses ==
    [][(UpdateStep /\ difficulty = "easy" /\ branch' \in {"attack", "miss"})
       => /\ strikeCount' = strikeCount + 1
          /\ IF strikeCount' % 3 = 0
             THEN result' = [idle |-> TRUE] /\ attackCooldown' = 120 * Res
             ELSE result' = Attack]_vars

\* the ninth attempt has resolved as a miss
C6_Witness ==
    /\ strikeCount = 9
    /\ branch = "miss"
    /\ result = [idle |-> TRUE]
    /\ attackCooldown = 120 * Res

\* the fixed difficulty table (probabilities in hundredths)
C7_Table(d) ==
    CASE d = "easy" ->
            [reactionTime |-> 1200,
             params |-> [aggressiveness |-> 90, defensiveness |-> 60,
                         attackRange |-> 190, comfortDistance |-> 320,
                         jumpChance |-> 12, mistakes |-> 50,
                         attackCooldownMin |-> 120, attackCooldownMax |-> 120]]
      [] d = "hard" ->
            [reactionTime |-> 150,
             params |-> [aggressiveness |-> 38, defensiveness |-> 45,
                         attackRange |-> 220, comfortDistance |-> 170,
                         jumpChance |-> 30, mistakes |-> 12,
                         attackCooldownMin |-> 90, attackCooldownMax |-> 150]]
      [] OTHER ->
            [reactionTime |-> 400,
             params |-> [aggressiveness |-> 28, defensiveness |-> 35,
                         attackRange |-> 195, comfortDistance |-> 200,
                         jumpChance |-> 22, mistakes |-> 25,
                         attackCooldownMin |-> 180, attackCooldownMax |-> 240]]

\* C7: in every reachable state reactionTime and params are the table row of the
\* current difficulty, the medium row for a difficulty that is not easy, medium or
\* hard.
C7_ProfileMatchesDifficulty ==
    /\ reactionTime = C7_Table(difficulty).reactionTime
    /\ params = C7_Table(difficulty).params

\* an unrecognized tier has attacked under the medium profile
C7_Witness ==
    /\ difficulty = "nightmare"
    /\ reactionTime = 400
    /\ branch = "attack"
    /\ now = lastDecisionTime
    /\ attackCooldown >= 180 * Res

\* C8: setDifficulty changes only difficulty, reactionTime and params:
\* attackCooldown, jumpCooldown, strikeCount, currentAction and lastDecisionTime
\* are as before.
C8_SetDifficultyKeepsTheRest ==
    [][~UpdateStep
       => UNCHANGED <<attackCooldown, jumpCooldown, strikeCount, currentAction,
                      lastDecisionTime>>]_vars

\* the engine was reconfigured to easy while a cooldown no easy decision can set
\* was running
C8_Witness ==
    /\ difficulty = "easy"
    /\ attackCooldown > 120 * Res
    /\ currentAction = Attack
    /\ lastDecisionTime > 0

\* C9: every update call returns exactly one of Idle, Attack, Jump(left),
\* Jump(right), Move(left), Move(right).
C9_AlwaysOneActionIntent ==
    branch # "constructor" =>
        result \in {[idle |-> TRUE], [attack |-> TRUE],
                    [jump |-> TRUE, moveDirection |-> "left"],
                    [jump |-> TRUE, moveDirection |-> "right"],
                    [move |-> "left"], [move |-> "right"]}

\* both fighters dead and nothing stored: the call has returned Idle
C9_Witness ==
    /\ flags # Null /\ flags.aiPlayerDead /\ flags.opponentDead
    /\ currentAction = Null
    /\ result = [idle |-> TRUE]

\* C10: when a fresh decision returns Attack through the attack branch,
\* attackCooldown after the call lies in [180,240] at medium (and at an
\* unrecognized tier), in [90,150] at hard, and is 120 at easy.
C10_AttackCooldownInTierRange ==
    [][(UpdateStep /\ branch' = "attack")
       => /\ result' = Attack
          /\ CASE difficulty = "easy" -> attackCooldown' = 120 * Res
               [] difficulty = "hard" ->
                    attackCooldown' >= 90 * Res /\ attackCooldown' <= 150 * Res
               [] OTHER ->
                    attackCooldown' >= 180 * Res /\ attackCooldown' <= 240 * Res]_vars

\* a hard-tier attack has drawn a cooldown that is not a whole number of frames
C10_Witness ==
    /\ difficulty = "hard"
    /\ branch = "attack"
    /\ now = lastDecisionTime
    /\ attackCooldown > 90 * Res
    /\ attackCooldown % Res # 0

\* a step of update that computes a fresh decision (lines 95 to 105)
FreshDecision == UpdateStep /\ locals' # Null

\* C11: in a fresh decision whose mistake roll fails, made with attackCooldown 0
\* after the decrement, the aggressiveness roll is reached exactly when
\* distance < attackRange, distance being the distance between the centres of the
\* two fighters: at medium it is reached at distance 194 and not at 195 or 196.
C11_AttackBranchIffInRange ==
    [][(FreshDecision /\ branch' # "mistake" /\ attackCooldown \in {0, Res})
       => LET selfCentre == 2 * 400 + 50
              opponentCentre == 2 * locals'.opponentX + 50
              distance == IF selfCentre < opponentCentre
                          THEN opponentCentre - selfCentre
                          ELSE selfCentre - opponentCentre
          IN  /\ locals'.distance = distance
              /\ (aggressivenessRoll' # "none") <=> (distance < 2 * params.attackRange)
              /\ difficulty = "medium"
                    => /\ (distance = 2 * 194 => aggressivenessRoll' # "none")
                       /\ (distance \in {2 * 195, 2 * 196}
                             => aggressivenessRoll' = "none")]_vars

\* at medium and distance 194 the roll was reached and failed
C11_Witness ==
    /\ difficulty = "medium"
    /\ locals # Null /\ locals.opponentX = 206 /\ locals.distance = 2 * 194
    /\ branch # "mistake"
    /\ aggressivenessRoll = "failed"

\* C13: lastDecisionTime never decreases: an update call leaves it as it was or
\* sets it to the clock value of the call, which is then at least the old value
\* plus the current reactionTime; setDifficulty leaves it as it was.
C13_LastDecisionTimeAdvances ==
    [][/\ lastDecisionTime' >= lastDecisionTime
       /\ UpdateStep
            => \/ lastDecisionTime' = lastDecisionTime
               \/ /\ lastDecisionTime' = now'
                  /\ now' >= lastDecisionTime + reactionTime
       /\ ~UpdateStep => lastDecisionTime' = lastDecisionTime]_vars

\* a decision at 1200 ms that follows an earlier decision (the one that attacked)
C13_Witness ==
    /\ lastDecisionTime = 1200 /\ now = 1200
    /\ locals # Null /\ branch = "idle"
    /\ attackCooldown > 0

\* C14: strikeCount never decreases, and a step changes it, by exactly +1, only
\* when it is an update call that computes a fresh decision whose mistake roll
\* fails, with distance < attackRange, attackCooldown 0 after the decrement and a
\* successful aggressiveness roll; a dead, attacking, gated, mistaken, out of
\* range, cooling down or unlucky call leaves it as it was.
C14_StrikeCountOnlyOnAttempts ==
    [][/\ strikeCount' >= strikeCount
       /\ strikeCount' # strikeCount
            => /\ strikeCount' = strikeCount + 1
               /\ FreshDecision
               /\ branch' # "mistake"
               /\ locals'.distance < 2 * params.attackRange
               /\ attackCooldown \in {0, Res}
               /\ aggressivenessRoll' = "passed"
       /\ (\/ ~UpdateStep
           \/ DeadCall(flags') \/ AttackingCall(flags')
           \/ branch' \in {"window", "mistake"}
           \/ aggressivenessRoll' # "passed")
            => strikeCount' = strikeCount]_vars

\* the second attempt, made once the cooldown of the first had run out
C14_Witness ==
    /\ strikeCount = 2
    /\ branch = "attack"
    /\ aggressivenessRoll = "passed"
    /\ now = lastDecisionTime

\* C15 as claimed: an update call given aiPlayer.dead or opponent.dead leaves
\* attackCooldown, jumpCooldown, lastDecisionTime and currentAction with the
\* values they had before the call.
C15_DeadCallTouchesNothing ==
    [][(UpdateStep /\ DeadCall(flags'))
       => UNCHANGED <<attackCooldown, jumpCooldown, lastDecisionTime,
                      currentAction>>]_vars

\* C15 as amended: an update call given aiPlayer.dead or opponent.dead leaves
\* lastDecisionTime and currentAction as they were and touches the cooldowns only
\* by the decrement that opens every call: a counter that is positive before the
\* call is 1 less after it, a counter that is not positive is unchanged.
C15_DeadCallOnlyDecrements ==
    [][(UpdateStep /\ DeadCall(flags'))
       => /\ UNCHANGED <<lastDecisionTime, currentAction>>
          /\ attackCooldown' =
                IF attackCooldown > 0 THEN attackCooldown - Res ELSE attackCooldown
          /\ jumpCooldown' =
                IF jumpCooldown > 0 THEN jumpCooldown - Res ELSE jumpCooldown]_vars

\* a dead call made while both cooldowns were running
C15_Witness ==
    /\ DeadCall(flags)
    /\ attackCooldown > 0 /\ attackCooldown < 120 * Res
    /\ jumpCooldown > 0 /\ jumpCooldown < 120 * Res
    /\ currentAction # Null

\* C16: a fresh decision whose mistake roll fails returns Attack only if
\* attackCooldown is 0 after this call's decrement and distance < attackRange, and
\* returns Jump only if jumpCooldown is 0 after the decrement; only a decision
\* whose mistake roll succeeds returns Attack or Jump while the matching cooldown
\* is running.
C16_OnlyMistakesBypassCooldowns ==
    [][(FreshDecision /\ branch' # "mistake")
       => /\ result' = [attack |-> TRUE]
                => /\ attackCooldown \in {0, Res}
                   /\ locals'.distance < 2 * params.attackRange
          /\ result' \in {[jump |-> TRUE, moveDirection |-> "left"],
                          [jump |-> TRUE, moveDirection |-> "right"]}
                => jumpCooldown \in {0, Res}]_vars

\* a mistaken decision has returned Attack while the attack cooldown was running
C16_Witness ==
    /\ branch = "mistake"
    /\ now = lastDecisionTime
    /\ result = [attack |-> TRUE]
    /\ attackCooldown > 0 /\ attackCooldown < 120 * Res

\* C17: in a fresh decision with the mistake roll failing, distance < attackRange
\* and attackCooldown 0, a failed aggressiveness roll leaves attackCooldown at 0
\* and strikeCount as it was, and the decision goes on through the jump,
\* positioning and strafe rules: the call returns what one of those rules returns
\* (a defensive Jump, a retreating Move, a strafing Move or Idle; in attack range
\* the offensive jump and the approach are out of reach at every tier).
C17_FailedRollFallsThrough ==
    [][(FreshDecision /\ aggressivenessRoll' = "failed")
       => LET away == IF locals'.isOpponentLeft THEN "right" ELSE "left"
          IN  /\ branch' # "mistake"
              /\ locals'.distance < 2 * params.attackRange
              /\ attackCooldown \in {0, Res}
              /\ attackCooldown' = 0
              /\ strikeCount' = strikeCount
              /\ currentAction' = result'
              /\ CASE branch' = "defensiveJump" ->
                          /\ result' = [jump |-> TRUE, moveDirection |-> away]
                          /\ jumpCooldown' = 120 * Res
                   [] branch' = "retreat" ->
                          /\ result' = [move |-> away]
                          /\ jumpCooldown' \in {jumpCooldown, jumpCooldown - Res}
                   [] branch' = "strafe" ->
                          /\ result' \in {[move |-> "left"], [move |-> "right"]}
                          /\ jumpCooldown' \in {jumpCooldown, jumpCooldown - Res}
                   [] branch' = "idle" ->
                          /\ result' = [idle |-> TRUE]
                          /\ jumpCooldown' \in {jumpCooldown, jumpCooldown - Res}
                   [] OTHER -> FALSE]_vars

\* in range and ready, the roll failed and the call still returned a Jump
C17_Witness ==
    /\ aggressivenessRoll = "failed"
    /\ branch = "defensiveJump"
    /\ result \in {[jump |-> TRUE, moveDirection |-> "left"],
                   [jump |-> TRUE, moveDirection |-> "right"]}
    /\ attackCooldown = 0
    /\ jumpCooldown = 120 * Res

\* C18: an update call given both fighters alive, aiPlayer.isAttacking false and
\* now - lastDecisionTime >= reactionTime sets lastDecisionTime to now, stores the
\* result of the cascade as currentAction and returns that value; every other
\* update call, and setDifficulty, leaves currentAction and lastDecisionTime as
\* they were, so currentAction is the result of the last fresh decision, and unset
\* as long as there has been none.
C18_FreshDecisionStoredAndReturned ==
    [][IF /\ UpdateStep
          /\ ~DeadCall(flags') /\ ~AttackingCall(flags')
          /\ now' - lastDecisionTime >= reactionTime
       THEN /\ lastDecisionTime' = now'
            /\ currentAction' = result'
            /\ currentAction' # Null
            /\ locals' # Null
            /\ branch' \notin {"dead", "attacking", "window"}
       ELSE /\ UNCHANGED <<currentAction, lastDecisionTime>>
            /\ UpdateStep => /\ locals' = Null
                             /\ branch' \in {"dead", "attacking", "window"}]_vars

\* a gated call, made at the clock value of the last fresh decision, has repeated
\* the Move that decision stored
C18_Witness ==
    /\ branch = "window"
    /\ now = lastDecisionTime
    /\ currentAction \in {[move |-> "left"], [move |-> "right"]}
    /\ result = currentAction

\* the value of a cooldown counter after n further update calls that do not
\* assign it (computed by halves; a counter that is no longer positive stays as
\* it is)
RECURSIVE DecrementedTimes(_, _)
DecrementedTimes(c, n) ==
    IF n = 0 THEN c
    ELSE IF n = 1 THEN Decrement(c)
         ELSE LET half == DecrementedTimes(c, n \div 2)
              IN  IF half <= 0 THEN half ELSE DecrementedTimes(half, n - n \div 2)

\* C19: whatever value the attack branch has given attackCooldown, repeated update
\* calls bring it back to exactly 0 within attackCooldownMax calls (240, the
\* largest of the table, allowed here at every tier), so that the attack rule,
\* which asks for attackCooldown === 0, becomes eligible again: in every reachable
\* state that many decrements of update take attackCooldown to 0.
C19_AttackCooldownReturnsToZero ==
    DecrementedTimes(attackCooldown, getDifficultyParams("medium").attackCooldownMax) = 0

\* C20: whenever a fresh decision whose mistake roll fails returns Jump,
\* jumpCooldown is 120 right after the call and the jump is away from the opponent
\* (right if opponent.x < self.x, else left) when distance < 100 and toward the
\* opponent (left if opponent.x < self.x, else right) when 250 < distance < 400;
\* jumpCooldown is a whole number of frames in 0..120 after every step, and such a
\* Jump comes no sooner than 120 update calls after the one before (at least 119
\* calls have been made since).
C20_JumpRulesAndCooldown ==
    [][/\ jumpCooldown' % Res = 0
       /\ jumpCooldown' >= 0 /\ jumpCooldown' <= 120 * Res
       /\ (/\ FreshDecision
           /\ branch' # "mistake"
           /\ result' \in {[jump |-> TRUE, moveDirection |-> "left"],
                           [jump |-> TRUE, moveDirection |-> "right"]})
            => LET opponentIsLeft == locals'.opponentX < 400
                   away == IF opponentIsLeft THEN "right" ELSE "left"
                   toward == IF opponentIsLeft THEN "left" ELSE "right"
                   distance == locals'.distance
               IN  /\ jumpCooldown' = 120 * Res
                   /\ distance < 2 * 100 \/ (distance > 2 * 250 /\ distance < 2 * 400)
                   /\ distance < 2 * 100 => result'.moveDirection = away
                   /\ (distance > 2 * 250 /\ distance < 2 * 400)
                        => result'.moveDirection = toward
                   /\ callsSinceJump >= 119]_vars

\* at the second decision the engine has jumped toward an opponent standing 300
\* to its right
C20_Witness ==
    /\ branch = "offensiveJump"
    /\ now = 2400 /\ lastDecisionTime = 2400
    /\ locals # Null /\ locals.opponentX = 700 /\ locals.distance = 2 * 300
    /\ result = [jump |-> TRUE, moveDirection |-> "right"]
    /\ jumpCooldown = 120 * Res
    /\ callsSinceJump = 0

=============================================================================
